---------------------------- MODULE Spec2Model ----------------------------
(***************************************************************************)
(* vite-plugin-style-dictionary: the module-resolution and change-         *)
(* relevance engine (src/src/internal.ts, src/src/path-utils.ts) and the   *)
(* plugin hooks that use it (src/src/plugin.ts).                           *)
(*                                                                         *)
(* Strings are sequences of one-character strings, so that prefix tests,   *)
(* separator rewriting and path splitting are computed, not assumed.       *)
(***************************************************************************)
EXTENDS Naturals, Sequences, FiniteSets, TLC

(***************************************************************************)
(* Strings                                                                 *)
(***************************************************************************)

\* A string literal as a sequence of characters.
S(s) == [i \in 1..Len(s) |-> SubSeq(s, i, i)]

\* The NUL character ('\0'), one character of an identifier.
NUL == "NUL"

\* String.prototype.startsWith
StartsWith(s, p) == Len(s) >= Len(p) /\ SubSeq(s, 1, Len(p)) = p

\* String.prototype.slice(n)
Slice(s, n) == SubSeq(s, n + 1, Len(s))

\* String.prototype.includes for one character
Includes(s, c) == \E i \in 1..Len(s) : s[i] = c

\* String.prototype.replace(/<from>/g, to) for one character
ReplaceAll(s, from, to) == [i \in 1..Len(s) |-> IF s[i] = from THEN to ELSE s[i]]

\* s.split(<separators>) without its empty pieces: the segments of a path.
RECURSIVE Segments(_, _)
Segments(s, seps) ==
  IF s = <<>> THEN <<>>
  ELSE IF s[1] \in seps THEN Segments(Tail(s), seps)
  ELSE LET n == CHOOSE k \in 1..Len(s) :
                  /\ \A i \in 1..k : s[i] \notin seps
                  /\ (k = Len(s) \/ s[k + 1] \in seps)
       IN <<SubSeq(s, 1, n)>> \o Segments(Slice(s, n), seps)

\* segments.join(sep)
RECURSIVE Join(_, _)
Join(segs, sep) ==
  IF segs = <<>> THEN <<>>
  ELSE IF Len(segs) = 1 THEN segs[1]
  ELSE segs[1] \o <<sep>> \o Join(Tail(segs), sep)

(***************************************************************************)
(* node:path, as the code uses it.  path is path.posix on "linux" and      *)
(* path.win32 on "win32".  Identifiers hold no "." or ".." segments and no *)
(* trailing separator, so normalisation is the removal of empty segments.  *)
(***************************************************************************)

Platforms == {"linux", "win32"}

Alphabet == S("abcdefghijklmnopqrstuvwxyzABCDEFGHIJKLMNOPQRSTUVWXYZ")
Letters == { Alphabet[i] : i \in 1..52 }

\* isPathSeparator / isPosixPathSeparator
Seps(plat) == IF plat = "win32" THEN {"/", "\\"} ELSE {"/"}
WinSeps == {"/", "\\"}

\* path.sep
Sep(plat) == IF plat = "win32" THEN "\\" ELSE "/"

\* process.cwd(): the project directory, in the platform's own notation.
CwdLinux == S("/r")
CwdWin32 == S("C:\\r")
Cwd(plat) == IF plat = "win32" THEN CwdWin32 ELSE CwdLinux

\* The root that path.win32 finds at the start of a path: its device ("C:" or
\* "\\server\share"), whether the path is absolute, and the segments after it.
WinRoot(s) ==
  IF s = <<>> THEN [device |-> <<>>, abs |-> FALSE, tail |-> <<>>]
  ELSE IF s[1] \in WinSeps THEN
    IF Len(s) >= 3 /\ s[2] \in WinSeps /\ s[3] \notin WinSeps
         /\ Len(Segments(s, WinSeps)) >= 2
    THEN LET segs == Segments(s, WinSeps) IN
         [device |-> <<"\\", "\\">> \o segs[1] \o <<"\\">> \o segs[2],
          abs |-> TRUE, tail |-> SubSeq(segs, 3, Len(segs))]
    ELSE [device |-> <<>>, abs |-> TRUE, tail |-> Segments(s, WinSeps)]
  ELSE IF Len(s) >= 2 /\ s[1] \in Letters /\ s[2] = ":" THEN
    [device |-> SubSeq(s, 1, 2),
     abs |-> (Len(s) > 2 /\ s[3] \in WinSeps),
     tail |-> Segments(Slice(s, 2), WinSeps)]
  ELSE [device |-> <<>>, abs |-> FALSE, tail |-> Segments(s, WinSeps)]

\* path.isAbsolute
IsAbsolute(plat, s) ==
  IF plat = "win32"
  THEN /\ Len(s) > 0
       /\ \/ s[1] \in Seps("win32")
          \/ Len(s) > 2 /\ s[1] \in Letters /\ s[2] = ":" /\ s[3] \in Seps("win32")
  ELSE Len(s) > 0 /\ s[1] = "/"

\* path.win32.resolve(s): the device of s, else that of the working directory;
\* the segments of s, after those of the working directory when s is relative.
WinResolveFrom(r, c) ==
  LET device == IF r.device # <<>> THEN r.device ELSE c.device
  IN device \o <<"\\">>
       \o Join(IF r.abs THEN r.tail
               ELSE IF device = c.device THEN c.tail \o r.tail
               ELSE r.tail, "\\")

WinResolve(s) == WinResolveFrom(WinRoot(s), WinRoot(CwdWin32))

\* path.posix.resolve(s)
PosixResolve(s) ==
  LET segs == IF IsAbsolute("linux", s) THEN Segments(s, {"/"})
              ELSE Segments(Cwd("linux"), {"/"}) \o Segments(s, {"/"})
  IN <<"/">> \o Join(segs, "/")

\* path.resolve(s)
Resolve(plat, s) == IF plat = "win32" THEN WinResolve(s) ELSE PosixResolve(s)

\* path.join(a, b): normalize(a + sep + b)
WinNormalizeFrom(r) ==
  r.device \o (IF r.abs THEN <<"\\">> ELSE <<>>) \o Join(r.tail, "\\")

Normalize(plat, joined) ==
  IF plat = "win32"
  THEN WinNormalizeFrom(WinRoot(joined))
  ELSE (IF joined[1] = "/" THEN <<"/">> ELSE <<>>) \o Join(Segments(joined, {"/"}), "/")

PathJoin(plat, a, b) == Normalize(plat, a \o <<Sep(plat)>> \o b)

\* path.posix.normalize of an identifier
PosixNormalize(s) ==
  IF s = <<>> THEN <<".">>
  ELSE (IF s[1] = "/" THEN <<"/">> ELSE <<>>) \o Join(Segments(s, {"/"}), "/")

(***************************************************************************)
(* src/src/path-utils.ts                                                   *)
(***************************************************************************)

VITE_FS_PREFIX == S("/@fs/")

\* value.replace(/^<pattern>/, replacement) for a literal pattern
ReplacePrefix(s, pattern, replacement) ==
  IF StartsWith(s, pattern) THEN replacement \o Slice(s, Len(pattern)) ELSE s

\* The number of "/" that s starts with.
RECURSIVE LeadingSlashes(_)
LeadingSlashes(s) ==
  IF s # <<>> /\ s[1] = "/" THEN 1 + LeadingSlashes(Tail(s)) ELSE 0

\* value.replace(/^\/+<rest>/, replacement)
ReplaceSlashesPrefix(s, rest, replacement) ==
  LET n == LeadingSlashes(s) IN
  IF n >= 1 /\ StartsWith(Slice(s, n), rest)
  THEN replacement \o Slice(s, n + Len(rest))
  ELSE s

\* WINDOWS_NAMESPACE_PREFIXES: the literal part of each pattern, and the
\* replacements.
BackslashVerbatimUnc == S("\\\\?\\UNC\\")
BackslashShortUnc == S("\\?\\UNC\\")
BackslashVerbatim == S("\\\\?\\")
BackslashShort == S("\\?\\")
SlashUncRest == S("?/UNC/")
SlashRest == S("?/")
TwoBackslashes == S("\\\\")
TwoSlashes == S("//")

\* The patterns with backslashes alone.
stripBackslashNamespace(value) ==
  ReplacePrefix(
    ReplacePrefix(
      ReplacePrefix(
        ReplacePrefix(value, BackslashVerbatimUnc, TwoBackslashes),
        BackslashShortUnc, TwoBackslashes),
      BackslashVerbatim, <<>>),
    BackslashShort, <<>>)

\* Each pattern is applied to the result of the one before.
stripWindowsNamespace(value) ==
  LET r1 == ReplacePrefix(value, BackslashVerbatimUnc, TwoBackslashes)
      r2 == ReplacePrefix(r1, BackslashShortUnc, TwoBackslashes)
      r3 == ReplacePrefix(r2, BackslashVerbatim, <<>>)
      r4 == ReplacePrefix(r3, BackslashShort, <<>>)
      r5 == ReplaceSlashesPrefix(r4, SlashUncRest, TwoSlashes)
      r6 == ReplaceSlashesPrefix(r5, SlashRest, <<>>)
  IN r6

toPosixPath(value) == ReplaceAll(value, "\\", "/")

\* On win32 path.posix.normalize(toPosixPath(value)); elsewhere vite's
\* normalizePath, which is path.posix.normalize there.
normalizeVitePath(value, platform) ==
  IF platform = "win32" THEN PosixNormalize(toPosixPath(value))
  ELSE PosixNormalize(value)

\* What fs.realpathSync does with an absolute path: it throws when the file does
\* not exist ("enoent"), returns the path ("same"), or returns it in verbatim
\* notation ("verbatim").
RealpathModes == {"enoent", "same", "verbatim"}

\* A path in verbatim notation: \\?\UNC\server\share for \\server\share, and
\* \\?\C:\ for C:\.
Verbatim(value) ==
  IF StartsWith(value, TwoBackslashes)
  THEN BackslashVerbatimUnc \o Slice(value, 2)
  ELSE BackslashVerbatim \o value

realpathSync(mode, value) ==
  CASE mode = "enoent"   -> [threw |-> TRUE, value |-> <<>>]
    [] mode = "same"     -> [threw |-> FALSE, value |-> value]
    [] mode = "verbatim" -> [threw |-> FALSE, value |-> Verbatim(value)]

\* normalizeViteIdForPlatform: the constants prefix and rawPath
FsPrefix(id) == IF StartsWith(id, VITE_FS_PREFIX) THEN VITE_FS_PREFIX ELSE <<>>

RawPath(id, prefix) ==
  stripWindowsNamespace(IF prefix # <<>> THEN Slice(id, Len(prefix)) ELSE id)

\* A catch clause that returns the identifier without its /@fs/ prefix.
TryRealPathSliced(id, prefix, real, platform) ==
  IF real.threw THEN Slice(id, Len(prefix))
  ELSE IF prefix # <<>>
       THEN prefix \o normalizeVitePath(stripWindowsNamespace(real.value), platform)
       ELSE stripWindowsNamespace(real.value)

\* normalizeViteIdForPlatform: the try block, real being what realpathSync did
TryRealPath(id, prefix, real, platform) ==
  IF real.threw THEN id
  ELSE IF prefix # <<>>
       THEN prefix \o normalizeVitePath(stripWindowsNamespace(real.value), platform)
       ELSE stripWindowsNamespace(real.value)

\* normalizeViteIdForPlatform from the test of rawPath on
FromRawPath(id, prefix, rawPath, platform, mode) ==
  IF ~IsAbsolute("win32", rawPath) THEN id
  ELSE TryRealPath(id, prefix, realpathSync(mode, WinResolve(rawPath)), platform)

FromPrefix(id, prefix, platform, mode) ==
  FromRawPath(id, prefix, RawPath(id, prefix), platform, mode)

\* A normalizer that does not look at the platform.
normalizeViteIdForWin32(id, platform, mode) ==
  FromPrefix(id, FsPrefix(id), "win32", mode)

normalizeViteIdForPlatform(id, platform, mode) ==
  IF platform # "win32" THEN id
  ELSE FromPrefix(id, FsPrefix(id), platform, mode)

\* normalizeViteIdForPlatform: the arguments of its calls of realpathSync, one
\* after the other
RealpathArgsFrom(rawPath, platform) ==
  IF platform # "win32" \/ ~IsAbsolute("win32", rawPath) THEN <<>>
  ELSE <<WinResolve(rawPath)>>

RealpathArgs(id, platform) == RealpathArgsFrom(RawPath(id, FsPrefix(id)), platform)

\* normalizeViteIdForPlatform: whether an exception leaves it.  Only realpathSync
\* throws, inside the try block, and the catch clause returns.
Throws(id, platform, mode) == FALSE

\* What a call of normalizeViteIdForPlatform was given and did.  calls counts
\* the calls in a row, each given what the one before returned; prefix,
\* namespace and body are the pieces the first identifier was built from.
NoNorm ==
  [calls |-> 0, id |-> <<>>, prefix |-> <<>>, namespace |-> <<>>, body |-> <<>>,
   value |-> <<>>, realpathArgs |-> <<>>, threw |-> FALSE]

normalizeViteIdCall(call, id, platform, mode) ==
  [call EXCEPT !.calls = @ + 1, !.id = id,
               !.value = normalizeViteIdForPlatform(id, platform, mode),
               !.realpathArgs = RealpathArgs(id, platform),
               !.threw = Throws(id, platform, mode)]

(***************************************************************************)
(* The host: the project, vite's createFilter and the values a module may  *)
(* export.                                                                 *)
(***************************************************************************)

\* server.config.root, which vite keeps with forward slashes.
RootLinux == S("/r")
RootWin32 == S("C:/r")
Root(plat) == IF plat = "win32" THEN RootWin32 ELSE RootLinux

\* The files of the project, as vite names them (ctx.file, the keys of the
\* module graph): the token file, the index file of the directory d, a file
\* the tokens may import, and a file nothing has loaded.
FileTLinux == S("/r/t")
FileILinux == S("/r/d/i")
FileCLinux == S("/r/c")
FileULinux == S("/r/u")
FileTWin32 == S("C:/r/t")
FileIWin32 == S("C:/r/d/i")
FileCWin32 == S("C:/r/c")
FileUWin32 == S("C:/r/u")
FileT(plat) == IF plat = "win32" THEN FileTWin32 ELSE FileTLinux
FileI(plat) == IF plat = "win32" THEN FileIWin32 ELSE FileILinux
FileC(plat) == IF plat = "win32" THEN FileCWin32 ELSE FileCLinux
FileU(plat) == IF plat = "win32" THEN FileUWin32 ELSE FileULinux
FilesLinux == {FileTLinux, FileILinux, FileCLinux, FileULinux}
FilesWin32 == {FileTWin32, FileIWin32, FileCWin32, FileUWin32}
Files(plat) == IF plat = "win32" THEN FilesWin32 ELSE FilesLinux

\* picomatch, for the patterns used here: "*" and "?" stay within one path
\* segment, "[...]" is one character of a class, anything else is itself.
RECURSIVE GlobMatch(_, _)
GlobMatch(p, s) ==
  IF p = <<>> THEN s = <<>>
  ELSE IF p[1] = "*"
    THEN GlobMatch(Tail(p), s) \/ (s # <<>> /\ s[1] # "/" /\ GlobMatch(p, Tail(s)))
  ELSE IF p[1] = "?"
    THEN s # <<>> /\ s[1] # "/" /\ GlobMatch(Tail(p), Tail(s))
  ELSE IF p[1] = "[" /\ Includes(Tail(p), "]")
    THEN LET k == CHOOSE j \in 2..Len(p) : p[j] = "]" /\ \A i \in 2..(j - 1) : p[i] # "]"
         IN /\ s # <<>>
            /\ \E i \in 2..(k - 1) : p[i] = s[1]
            /\ GlobMatch(Slice(p, k), Tail(s))
  ELSE s # <<>> /\ s[1] = p[1] /\ GlobMatch(Tail(p), Tail(s))

\* A filter that compares patterns and identifiers as they are written.
createFilterRaw(include, id) ==
  /\ ~Includes(id, NUL)
  /\ \/ include = <<>>
     \/ \E i \in 1..Len(include) : GlobMatch(include[i], id)

\* vite's createFilter(include)(id): an identifier holding NUL never passes;
\* patterns and identifier are compared with forward slashes, and a pattern
\* matches the identifier equal to it; with no pattern at all every identifier
\* passes.
createFilter(include, id) ==
  /\ ~Includes(id, NUL)
  /\ \/ include = <<>>
     \/ \E i \in 1..Len(include) :
          \/ toPosixPath(include[i]) = toPosixPath(id)
          \/ GlobMatch(toPosixPath(include[i]), toPosixPath(id))

\* JavaScript values, by typeof: what a token module may export.
Undefined == [t |-> "undefined", v |-> ""]
JsNull == [t |-> "null", v |-> ""]
JsValues ==
  { Undefined, JsNull,
    [t |-> "string", v |-> "not-an-object"], [t |-> "string", v |-> ""],
    [t |-> "number", v |-> "0"], [t |-> "function", v |-> "f"],
    [t |-> "object", v |-> "tokens"], [t |-> "array", v |-> "list"] }

\* typeof value
TypeOf(value) ==
  IF value.t \in {"null", "array", "module"} THEN "object" ELSE value.t

\* !value
Falsy(value) ==
  \/ value.t \in {"undefined", "null"}
  \/ value.t = "string" /\ value.v = ""
  \/ value.t = "number" /\ value.v = "0"

\* What ssrLoadModule resolves to: a module namespace with the given default
\* export (Undefined: none) and one named export, or no object at all.
ModuleOf(default) == [t |-> "module", v |-> "ns", default |-> default]
ModuleResults == { ModuleOf(d) : d \in JsValues } \cup {Undefined, JsNull}

\* ssrLoadModule rejects when the module cannot be transformed or throws.
Rejected == [t |-> "rejected", v |-> "error"]

\* module?.default
OptionalDefault(module) == IF module.t = "module" THEN module.default ELSE Undefined

\* a || b
CoalesceOr(a, b) == IF Falsy(a) THEN b ELSE a

\* a ?? b
Coalesce(a, b) == IF a.t \in {"undefined", "null"} THEN b ELSE a

(***************************************************************************)
(* State                                                                   *)
(***************************************************************************)

VARIABLES
  platform,            \* process.platform
  realpath,            \* how fs.realpathSync answers
  sources,             \* plugin.ts: const sources = normalizeSources(config.source)
  devServer,           \* plugin.ts: let devServer
  fileToModules,       \* host: moduleGraph.getModulesByFile
  importedModules,     \* host: ModuleNode.importedModules
  ssrImportedModules,  \* host: ModuleNode.ssrImportedModules
  op,                  \* the operation in progress, "none" between operations
  pc,                  \* where it stands: "idle", "collect", "build", "done"
  context,             \* handleHotUpdate: what isTestRun looks at
  changedFile,         \* isRelevantChange: its changedFile
  hostIds,             \* what pluginContainer.resolveId answered, call by call
  entryFiles,          \* isRelevantChange: const entryFiles
  entryModules,        \* isRelevantChange: const entryModules
  changedModules,      \* isRelevantChange: const changedModules
  queue,               \* collectModuleGraph: its queue
  visited,             \* collectModuleGraph: its visited set
  expanded,            \* how often each node's imports were appended to the queue
  relevant,            \* isRelevantChange: what it returned, "" until it has
  returned,            \* handleHotUpdate: what it returned, "" until it has
  builds,              \* builds the operation has triggered
  logged,              \* errors the operation has reported through the logger
  load,                \* createTokensLoader: what the loader it returned did
  parsed,              \* parseTokenModule: what it threw or returned
  entries,             \* resolveSourceEntries: what it asked and returned
  norm,                \* normalizeViteIdForPlatform: what it was given and did
  hostConfig,          \* host: the ResolvedConfig of the process, once a hook saw it
  hooks,               \* the calls of the plugin's hooks, finished or suspended
  servers,             \* host: the calls of vite's createServer, and of close
  watched,             \* host: the calls of server.watcher.add
  instances,           \* the StyleDictionary instances constructed
  errors               \* host: the number of calls of logger.error

vars == <<platform, realpath, sources, devServer, fileToModules, importedModules,
          ssrImportedModules, op, pc, context, changedFile, hostIds, entryFiles,
          entryModules, changedModules, queue, visited, expanded, relevant, returned,
          builds, logged, load, parsed, entries, norm, hostConfig, hooks,
          servers,
          watched, instances, errors>>

envVars == <<platform, realpath, sources>>
graphVars == <<fileToModules, importedModules, ssrImportedModules>>
loadVars == <<load, parsed>>
pureVars == <<entries, norm>>
lifeVars == <<hostConfig, hooks, servers, watched, instances, errors>>
relVars == <<changedFile, entryFiles, entryModules, changedModules, queue,
             visited, expanded>>

(***************************************************************************)
(* Bounds and inputs                                                       *)
(***************************************************************************)

\* Import edges the host has recorded, of both kinds together: while
\* isRelevantChange is called directly, and while hot updates arrive.
MaxImports == 2
MaxHotImports == 1

Nodes == {"n1", "n2", "n3"}

\* The order in which a Set of nodes is iterated.
NodeIndex(n) == CASE n = "n1" -> 1 [] n = "n2" -> 2 [] n = "n3" -> 3

\* Array.from(set)
RECURSIVE ArrayFrom(_)
ArrayFrom(set) ==
  IF set = {} THEN <<>>
  ELSE LET first == CHOOSE n \in set : \A m \in set : NodeIndex(n) <= NodeIndex(m)
       IN <<first>> \o ArrayFrom(set \ {first})

\* The modules the host has loaded: the token file with two nodes for the file it
\* may import, or the index file of a directory, an import and the token file.
Registrations(plat) ==
  { [f \in Files(plat) |->
       CASE f = FileT(plat) -> {"n1"} [] f = FileC(plat) -> {"n2", "n3"} [] OTHER -> {}],
    [f \in Files(plat) |->
       CASE f = FileI(plat) -> {"n1"} [] f = FileC(plat) -> {"n2"}
         [] f = FileT(plat) -> {"n3"} [] OTHER -> {}] }

\* config.source, as the user may declare it: nothing, a file, a directory, a
\* file nothing has loaded, globs, an absolute path.
SourceListsLinux ==
  { <<>>, <<S("t")>>, <<S("d")>>, <<S("u")>>, <<S("*")>>,
    <<S("[cu]"), S("d")>>, <<FileTLinux, S("d")>> }
SourceListsWin32 ==
  { <<>>, <<S("t")>>, <<S("d")>>, <<S("u")>>, <<S("*")>>,
    <<S("[cu]"), S("d")>>, <<FileTWin32, S("d")>> }
SourceLists(plat) == IF plat = "win32" THEN SourceListsWin32 ELSE SourceListsLinux

\* What pluginContainer.resolveId may answer: nothing, a result without id, an
\* internal or a virtual module, or a file; on win32 also a file in verbatim
\* notation.
HostNull == [obj |-> FALSE, id |-> <<>>]
HostId(id) == [obj |-> TRUE, id |-> id]
HostFailures ==
  {HostNull, HostId(<<>>), HostId(<<NUL>> \o S("x")), HostId(S("virtual:x"))}
HostResultsLinux == HostFailures \cup {HostId(FileTLinux), HostId(FileILinux)}
HostResultsWin32 ==
  HostFailures \cup {HostId(FileTWin32), HostId(FileIWin32),
                     HostId(S("//?/C:/r/d/i"))}
HostResults(plat) == IF plat = "win32" THEN HostResultsWin32 ELSE HostResultsLinux

\* The filePath a parser is called with: the token file, a directory, a file
\* outside the root, and a relative path or a path in verbatim notation; or none.
NoFilePath == [given |-> FALSE, path |-> <<>>]
FilePath(path) == [given |-> TRUE, path |-> path]
FilePathsLinux ==
  { NoFilePath, FilePath(FileTLinux), FilePath(S("/r/d")), FilePath(S("/o/t")),
    FilePath(S("t")) }
FilePathsWin32 ==
  { NoFilePath, FilePath(FileTWin32), FilePath(S("C:/r/d")), FilePath(S("C:/o/t")),
    FilePath(S("\\\\?\\C:\\r\\t")) }
FilePaths(plat) == IF plat = "win32" THEN FilePathsWin32 ELSE FilePathsLinux

\* The answers that lead isRelevantChange to different entry files.
GraphHostsLinux == {HostNull, HostId(FileTLinux), HostId(FileILinux)}
GraphHostsWin32 == {HostNull, HostId(FileTWin32), HostId(FileIWin32)}
GraphHosts(plat) == IF plat = "win32" THEN GraphHostsWin32 ELSE GraphHostsLinux

\* The identifiers normalizeViteIdForPlatform is given, each built from three
\* pieces: vite's /@fs/ prefix or none; a verbatim prefix, with or without UNC,
\* in either notation and as it stands behind /@fs/, or none; and a path: a file on a drive in either notation,
\* a relative path, a path without a drive, a share, a virtual module, and the
\* paths of tests/path-utils.test.ts.
NormPrefixes == {<<>>, VITE_FS_PREFIX}
Namespaces ==
  {<<>>, BackslashVerbatim, S("//?/"), S("/?/"), BackslashVerbatimUnc,
   S("//?/UNC/")}
Bodies ==
  { S("C:/r/t"), S("C:\\r\\t"), S("t"), S("/r/t"), S("s/h/x"), S("virtual:x"),
    S("home/runner/project/tokens.ts"),
    S("C:/Users/Runner/AppData/Local/Temp/vite-sd/tokens.ts") }

\* Calls of normalizeViteIdForPlatform in a row, each on the result of the one
\* before.
MaxNormCalls == 2

\* What isTestRun looks at: config.mode, process.env.VITEST or a vitest argument,
\* a plugin named vitest:*.
Contexts ==
  { [mode |-> "development", cli |-> FALSE, plugin |-> FALSE],
    [mode |-> "test", cli |-> FALSE, plugin |-> FALSE],
    [mode |-> "development", cli |-> TRUE, plugin |-> FALSE],
    [mode |-> "development", cli |-> FALSE, plugin |-> TRUE] }
NoContext == [mode |-> "", cli |-> FALSE, plugin |-> FALSE]

(***************************************************************************)
(* src/src/internal.ts                                                     *)
(***************************************************************************)

\* path-utils.ts: normalizeViteId, with the platform and file system of the process
normalizeViteId(id) == normalizeViteIdForPlatform(id, platform, realpath)

\* /[*?[\]]/.test(source)
isGlob(source) == \E i \in 1..Len(source) : source[i] \in {"*", "?", "[", "]"}

\* path.isAbsolute(source) ? source : path.join(root, source)
toAbsolute(root, source) ==
  IF IsAbsolute(platform, source) THEN source ELSE PathJoin(platform, root, source)

toAbsoluteGlobs(root, srcs) == [i \in 1..Len(srcs) |-> toAbsolute(root, srcs[i])]

VirtualPrefix == S("virtual:")

\* The result of resolveTokenEntry: null, or an identifier.
Null == [null |-> TRUE, id |-> <<>>]
Id(id) == [null |-> FALSE, id |-> id]

\* A resolver that takes every identifier the host answers.
resolveTokenEntryAny(sourceFile, resolved) ==
  IF ~resolved.obj \/ resolved.id = <<>> THEN Null
  ELSE Id(normalizeViteId(resolved.id))

\* resolveTokenEntry, given what resolveId answered for normalizeViteId(sourceFile)
resolveTokenEntry(sourceFile, resolved) ==
  IF \/ ~resolved.obj
     \/ resolved.id = <<>>
     \/ StartsWith(resolved.id, <<NUL>>)
     \/ StartsWith(resolved.id, VirtualPrefix)
  THEN Null
  ELSE Id(normalizeViteId(resolved.id))

\* resolved ?? absoluteSource
OrElse(resolved, fallback) == IF resolved.null THEN fallback ELSE resolved.id

\* server.moduleGraph.getModulesByFile(file) ?? []
getModulesByFile(f) == IF f \in DOMAIN fileToModules THEN fileToModules[f] ELSE {}

\* entryFiles.flatMap((file) => Array.from(getModulesByFile(file) ?? []))
RECURSIVE FlatModules(_)
FlatModules(files) ==
  IF files = <<>> THEN <<>>
  ELSE ArrayFrom(getModulesByFile(Head(files))) \o FlatModules(Tail(files))

\* isRelevantChange: the entry files of the literal sources
EntryFiles(root, srcs, hosts) ==
  LET literals == SelectSeq(srcs, LAMBDA s : ~isGlob(s)) IN
  [i \in 1..Len(literals) |->
     LET absoluteSource == toAbsolute(root, literals[i])
     IN OrElse(resolveTokenEntry(absoluteSource, hosts[i]), absoluteSource)]

\* What a call of resolveSourceEntries did: the sources it was given, what the
\* host answered for each, what it asked the host to resolve for each, and the
\* array it returned.
NoEntries == [called |-> FALSE, source |-> <<>>, hosts |-> <<>>, asked |-> <<>>,
              value |-> <<>>]

\* An entry that is resolved whatever its characters.
SourceEntryLiteral(root, entry, host) ==
  [asked |-> <<normalizeViteId(toAbsolute(root, entry))>>,
   value |-> OrElse(resolveTokenEntry(toAbsolute(root, entry), host),
                    toAbsolute(root, entry))]

\* resolveSourceEntries: the callback of sources.map, resolveId answering host
SourceEntry(root, entry, host) ==
  IF isGlob(entry) THEN [asked |-> <<>>, value |-> entry]
  ELSE [asked |-> <<normalizeViteId(toAbsolute(root, entry))>>,
        value |-> OrElse(resolveTokenEntry(toAbsolute(root, entry), host),
                         toAbsolute(root, entry))]

\* resolveSourceEntries(server, srcs), hosts[i] being what resolveId answers when
\* it is asked for the i-th source
resolveSourceEntries(root, srcs, hosts) ==
  [called |-> TRUE, source |-> srcs, hosts |-> hosts,
   asked |-> [i \in 1..Len(srcs) |-> SourceEntry(root, srcs[i], hosts[i]).asked],
   value |-> [i \in 1..Len(srcs) |-> SourceEntry(root, srcs[i], hosts[i]).value]]

\* The static imports alone.
NextOfStatic(current) == ArrayFrom(importedModules[current])

\* collectModuleGraph: const next
NextOf(current) ==
  ArrayFrom(importedModules[current]) \o ArrayFrom(ssrImportedModules[current])

\* No module is ever skipped.
SkipsNever(current, seen) == FALSE

\* collectModuleGraph: whether the head of the queue is skipped
Skips(current, seen) == current \in seen

\* toViteModuleId
ModuleIdOf(normalizedRoot, normalizedFile, sep) ==
  IF StartsWith(normalizedFile, normalizedRoot \o <<sep>>)
  THEN <<"/">> \o ReplaceAll(Slice(normalizedFile, Len(normalizedRoot) + 1), sep, "/")
  ELSE VITE_FS_PREFIX \o ReplaceAll(normalizedFile, sep, "/")

toViteModuleId(root, filePath) ==
  ModuleIdOf(Resolve(platform, root), Resolve(platform, filePath), Sep(platform))

(***************************************************************************)
(* isRelevantChange and collectModuleGraph                                 *)
(***************************************************************************)

Bool(b) == IF b THEN "true" ELSE "false"

\* isRelevantChange(server, sources, f) up to its call of collectModuleGraph, the
\* host answering hosts[i] to the resolveId call for the i-th literal source:
\* whether it has returned, what, and the constants it has computed.
NoLookup ==
  [returns |-> TRUE, value |-> TRUE, hostIds |-> <<>>, entryFiles |-> <<>>,
   entryModules |-> <<>>, changedModules |-> {}]

LookupModules(hosts, files, emods, cmods) ==
  IF Len(emods) = 0
    THEN [NoLookup EXCEPT !.value = FALSE, !.hostIds = hosts, !.entryFiles = files]
  ELSE IF Cardinality(cmods) = 0
    THEN [NoLookup EXCEPT !.value = FALSE, !.hostIds = hosts, !.entryFiles = files,
                          !.entryModules = emods]
  ELSE [returns |-> FALSE, value |-> FALSE, hostIds |-> hosts, entryFiles |-> files,
        entryModules |-> emods, changedModules |-> cmods]

LookupFiles(f, hosts, files) ==
  LookupModules(hosts, files, FlatModules(files), getModulesByFile(f))

Lookup(f, hosts) ==
  IF createFilter(toAbsoluteGlobs(Root(platform), sources), f) THEN NoLookup
  ELSE LookupFiles(f, hosts, EntryFiles(Root(platform), sources, hosts))

\* One call of collectModuleGraph with a queue that is not empty: the arguments
\* of the call it makes, and whether it appended the imports of current.
collectCall(q, seen) ==
  LET current == Head(q)
      rest == Tail(q)
  IN IF Skips(current, seen)
     THEN [queue |-> rest, visited |-> seen, expands |-> FALSE]
     ELSE [queue |-> rest \o NextOf(current), visited |-> seen \cup {current},
           expands |-> TRUE]

RECURSIVE collectModuleGraph(_, _)
collectModuleGraph(q, seen) ==
  IF Len(q) = 0 THEN seen
  ELSE LET call == collectCall(q, seen) IN collectModuleGraph(call.queue, call.visited)

\* tokenGraph.has(mod) for some mod of changedModules
InTokenGraph(tokenGraph, mods) == \E mod \in mods : mod \in tokenGraph

LiteralCount == Len(SelectSeq(sources, LAMBDA s : ~isGlob(s)))

(***************************************************************************)
(* Operations                                                              *)
(***************************************************************************)

\* internal.ts: DEFAULT_ENTRY, the file "t" standing for tokens.ts
TokensFile == S("t")
DEFAULT_ENTRY == Resolve(platform, TokensFile)

\* The messages of the errors thrown.
LoaderUnavailable == S("[style-dictionary] Vite server is not available")
MessageHead == S("[style-dictionary] ")
MessageTail == S(" must export a default object")
InvalidTokenExport(sourceFile) == MessageHead \o sourceFile \o MessageTail
HostError == S("host")

\* filePath ?? DEFAULT_ENTRY
OrDefault(filePath) == IF filePath.given THEN filePath.path ELSE DEFAULT_ENTRY

NoLoad ==
  [called |-> FALSE, filePath |-> NoFilePath, threw |-> FALSE, error |-> <<>>,
   sourceFile |-> <<>>, asked |-> <<>>, resolveIds |-> 0, host |-> HostNull,
   entryFile |-> Null, moduleId |-> <<>>, ssrLoads |-> 0, module |-> Undefined,
   value |-> Undefined]

\* createTokensLoader: the loader from ssrLoadModule on
LoadModule(call, module) ==
  IF module = Rejected
  THEN [call EXCEPT !.ssrLoads = 1, !.module = module, !.threw = TRUE,
                    !.error = HostError]
  ELSE [call EXCEPT !.ssrLoads = 1, !.module = module,
                    !.value = Coalesce(OptionalDefault(module), module)]

\* createTokensLoader: the loader from const moduleId on
LoadEntry(call, root, sourceFile, entryFile, module) ==
  LoadModule([call EXCEPT !.entryFile = entryFile,
                          !.moduleId = normalizeViteId(
                             OrElse(entryFile, toViteModuleId(root, sourceFile)))],
             module)

\* createTokensLoader: the loader from const entryFile on, resolveId answering
\* host to what resolveTokenEntry asks
LoadSource(call, root, sourceFile, host, module) ==
  LoadEntry([call EXCEPT !.sourceFile = sourceFile,
                         !.asked = normalizeViteId(sourceFile),
                         !.resolveIds = 1, !.host = host],
            root, sourceFile, resolveTokenEntry(sourceFile, host), module)

\* A loader that does not look at the server.
loadTokensUnchecked(server, filePath, host, module) ==
  LoadSource([NoLoad EXCEPT !.called = TRUE, !.filePath = filePath],
             Root(platform), normalizeViteId(OrDefault(filePath)), host, module)

\* createTokensLoader: the loader it returns, called with filePath while getServer
\* returns server
loadTokens(server, filePath, host, module) ==
  IF server = "null"
  THEN [NoLoad EXCEPT !.called = TRUE, !.filePath = filePath, !.threw = TRUE,
                      !.error = LoaderUnavailable]
  ELSE LoadSource([NoLoad EXCEPT !.called = TRUE, !.filePath = filePath],
                  Root(platform), normalizeViteId(OrDefault(filePath)), host, module)

NoParse == [threw |-> FALSE, error |-> <<>>, value |-> Undefined]

\* A parser that tests the type alone.
ParseTokensByType(sourceFile, call) ==
  IF call.threw THEN [NoParse EXCEPT !.threw = TRUE, !.error = call.error]
  ELSE IF TypeOf(call.value) # "object"
    THEN [NoParse EXCEPT !.threw = TRUE, !.error = InvalidTokenExport(sourceFile)]
  ELSE [NoParse EXCEPT !.value = call.value]

\* parseTokenModule from the test of tokens on
ParseTokens(sourceFile, call) ==
  IF call.threw THEN [NoParse EXCEPT !.threw = TRUE, !.error = call.error]
  ELSE IF Falsy(call.value) \/ TypeOf(call.value) # "object"
    THEN [NoParse EXCEPT !.threw = TRUE, !.error = InvalidTokenExport(sourceFile)]
  ELSE [NoParse EXCEPT !.value = call.value]

Init ==
  /\ platform \in Platforms
  /\ realpath \in (IF platform = "win32" THEN RealpathModes ELSE {"same"})
  /\ sources \in SourceLists(platform)
  /\ devServer = "null"
  /\ fileToModules \in Registrations(platform)
  /\ importedModules = [n \in Nodes |-> {}]
  /\ ssrImportedModules = [n \in Nodes |-> {}]
  /\ op = "none"
  /\ pc = "idle"
  /\ context = NoContext
  /\ changedFile = <<>>
  /\ hostIds = <<>>
  /\ entryFiles = <<>>
  /\ entryModules = <<>>
  /\ changedModules = {}
  /\ queue = <<>>
  /\ visited = {}
  /\ expanded = [n \in Nodes |-> 0]
  /\ relevant = ""
  /\ returned = ""
  /\ builds = 0
  /\ logged = 0
  /\ load = NoLoad
  /\ parsed = NoParse
  /\ entries = NoEntries
  /\ norm = NoNorm
  /\ hostConfig = NoContext
  /\ hooks = <<>>
  /\ servers = <<>>
  /\ watched = <<>>
  /\ instances = <<>>
  /\ errors = 0

Imports == UNION { {<<a, b, "static">> : b \in importedModules[a]} : a \in Nodes }
             \cup UNION { {<<a, b, "ssr">> : b \in ssrImportedModules[a]} : a \in Nodes }

\* The host records that module a imports module b.
HostAddImport(a, b, limit) ==
  /\ pc = "idle"
  /\ Cardinality(Imports) < limit
  /\ b \notin importedModules[a]
  /\ importedModules' = [importedModules EXCEPT ![a] = @ \cup {b}]
  /\ UNCHANGED <<envVars, pureVars, lifeVars, devServer, fileToModules, ssrImportedModules, op, pc,
                 context, relVars, hostIds, relevant, returned, builds, logged, loadVars>>

\* The host records that module a imported module b when run on the server.
HostAddSsrImport(a, b, limit) ==
  /\ pc = "idle"
  /\ Cardinality(Imports) < limit
  /\ b \notin ssrImportedModules[a]
  /\ ssrImportedModules' = [ssrImportedModules EXCEPT ![a] = @ \cup {b}]
  /\ UNCHANGED <<envVars, pureVars, lifeVars, devServer, fileToModules, importedModules, op, pc,
                 context, relVars, hostIds, relevant, returned, builds, logged, loadVars>>

\* The answers of the host that isRelevantChange asks for: none when the filter
\* lets f pass.
HostAnswers(f, hosts) ==
  IF createFilter(toAbsoluteGlobs(Root(platform), sources), f)
  THEN { <<>> }
  ELSE [1..LiteralCount -> hosts]

\* A test that looks at the mode alone.
isTestMode(config) == config.mode = "test"

\* plugin.ts: isTestRun
isTestRun(config) == config.mode = "test" \/ config.cli \/ config.plugin

\* A hook that builds whatever the answer.
GateAlways(isRelevant) ==
  /\ pc' = "build"
  /\ returned' = ""

\* What handleHotUpdate does with the answer of isRelevantChange.
Gate(isRelevant) ==
  /\ pc' = IF isRelevant THEN "build" ELSE "done"
  /\ returned' = IF isRelevant THEN "" ELSE "undefined"

\* plugin.ts: handleHotUpdate, up to its call of buildStyleDictionary
handleHotUpdate ==
  /\ pc = "idle"
  /\ op' = "handleHotUpdate"
  /\ \E config \in Contexts :
       /\ context' = config
       /\ IF isTestRun(config)
          THEN /\ returned' = "undefined"
               /\ pc' = "done"
               /\ UNCHANGED <<relVars, hostIds, relevant>>
          ELSE \E f \in Files(platform) :
               \E hosts \in HostAnswers(f, GraphHosts(platform)) :
               \E look \in { Lookup(f, hosts) } :
               \E tokenGraph \in { IF look.returns THEN {}
                                    ELSE collectModuleGraph(look.entryModules, {}) } :
               \E isRelevant \in { IF look.returns THEN look.value
                                    ELSE InTokenGraph(tokenGraph, look.changedModules) } :
                    /\ changedFile' = f
                    /\ hostIds' = look.hostIds
                    /\ entryFiles' = look.entryFiles
                    /\ entryModules' = look.entryModules
                    /\ changedModules' = look.changedModules
                    /\ visited' = tokenGraph
                    /\ relevant' = Bool(isRelevant)
                    /\ Gate(isRelevant)
                    /\ UNCHANGED <<queue, expanded>>
  /\ UNCHANGED <<envVars, pureVars, lifeVars, devServer, graphVars, builds, logged, loadVars>>

\* plugin.ts: buildStyleDictionary, awaited by configureServer and by
\* handleHotUpdate, which then returns the modules of the generated files.  A
\* failing build is caught and logged.
buildStyleDictionary ==
  /\ pc = "build"
  /\ builds' = builds + 1
  /\ \E failed \in BOOLEAN : logged' = IF failed THEN logged + 1 ELSE logged
  /\ returned' = IF op = "handleHotUpdate" THEN "modules" ELSE "undefined"
  /\ pc' = "done"
  /\ UNCHANGED <<envVars, pureVars, lifeVars, devServer, graphVars, op, context, relVars, hostIds,
                 relevant, loadVars>>

\* plugin.ts: configureServer, up to its call of buildStyleDictionary
configureServer ==
  /\ pc = "idle"
  /\ op' = "configureServer"
  /\ \E config \in Contexts :
       /\ context' = config
       /\ IF isTestRun(config)
          THEN /\ returned' = "undefined"
               /\ pc' = "done"
               /\ UNCHANGED devServer
          ELSE /\ devServer' = "live"
               /\ pc' = "build"
               /\ UNCHANGED returned
  /\ UNCHANGED <<envVars, pureVars, lifeVars, graphVars, relVars, hostIds, relevant, builds, logged,
                 loadVars>>

\* A call of the loader that createTokensLoader(() => devServer) returned
callLoadTokens ==
  /\ pc = "idle"
  /\ op' = "loadTokens"
  /\ \E filePath \in FilePaths(platform), host \in HostResults(platform),
        module \in ModuleResults \cup {Rejected} :
       load' = loadTokens(devServer, filePath, host, module)
  /\ pc' = "done"
  /\ UNCHANGED <<envVars, pureVars, lifeVars, devServer, graphVars, context, relVars, hostIds, relevant,
                 returned, builds, logged, parsed>>

\* A call of parseTokenModule({contents, filePath}, loadTokens) with that loader
callParseTokenModule ==
  /\ pc = "idle"
  /\ op' = "parseTokenModule"
  /\ \E filePath \in FilePaths(platform), host \in HostResults(platform),
        module \in ModuleResults \cup {Rejected} :
     \E call \in { loadTokens(devServer, filePath, host, module) } :
       /\ load' = call
       /\ parsed' = ParseTokens(OrDefault(filePath), call)
  /\ pc' = "done"
  /\ UNCHANGED <<envVars, pureVars, lifeVars, devServer, graphVars, context, relVars, hostIds, relevant,
                 returned, builds, logged>>

\* A call of normalizeViteIdForPlatform(id, platform, realpathSync)
callNormalizeViteIdForPlatform ==
  /\ pc = "idle"
  /\ op' = "normalizeViteIdForPlatform"
  /\ \E prefix \in NormPrefixes, namespace \in Namespaces, body \in Bodies :
       norm' = normalizeViteIdCall(
                 [NoNorm EXCEPT !.prefix = prefix, !.namespace = namespace,
                                !.body = body],
                 prefix \o namespace \o body, platform, realpath)
  /\ pc' = "done"
  /\ UNCHANGED <<envVars, lifeVars, devServer, graphVars, context, relVars,
                 hostIds, relevant, returned, builds, logged, loadVars, entries>>

\* A call of normalizeViteIdForPlatform with what the call before returned
callNormalizeViteIdAgain ==
  /\ pc = "done"
  /\ op = "normalizeViteIdForPlatform"
  /\ norm.calls < MaxNormCalls
  /\ ~norm.threw
  /\ norm' = normalizeViteIdCall(norm, norm.value, platform, realpath)
  /\ UNCHANGED <<envVars, lifeVars, devServer, graphVars, op, pc, context, relVars,
                 hostIds, relevant, returned, builds, logged, loadVars, entries>>

\* A call of the exported resolveSourceEntries(server, source) with a live
\* server.
callResolveSourceEntries ==
  /\ pc = "idle"
  /\ op' = "resolveSourceEntries"
  /\ \E srcs \in SourceLists(platform) :
     \E hosts \in [1..Len(srcs) -> HostResults(platform)] :
       entries' = resolveSourceEntries(Root(platform), srcs, hosts)
  /\ pc' = "done"
  /\ UNCHANGED <<envVars, lifeVars, devServer, graphVars, context, relVars,
                 hostIds, relevant, returned, builds, logged, loadVars, norm>>

\* A call of the exported isRelevantChange(server, sources, f), up to its call of
\* collectModuleGraph.
callIsRelevantChange ==
  /\ pc = "idle"
  /\ op' = "isRelevantChange"
  /\ \E f \in Files(platform) :
     \E hosts \in HostAnswers(f, GraphHosts(platform)) :
     \E look \in { Lookup(f, hosts) } :
          /\ changedFile' = f
          /\ hostIds' = look.hostIds
          /\ entryFiles' = look.entryFiles
          /\ entryModules' = look.entryModules
          /\ changedModules' = look.changedModules
          /\ queue' = look.entryModules
          /\ relevant' = IF look.returns THEN Bool(look.value) ELSE ""
          /\ pc' = IF look.returns THEN "done" ELSE "collect"
  /\ UNCHANGED <<envVars, pureVars, lifeVars, devServer, graphVars, context, visited, expanded, returned,
                 builds, logged, loadVars>>

\* collectModuleGraph called with a queue that is not empty.
collectModuleGraphCall ==
  /\ pc = "collect"
  /\ Len(queue) # 0
  /\ \E call \in { collectCall(queue, visited) } :
        /\ queue' = call.queue
        /\ visited' = call.visited
        /\ expanded' = IF call.expands
                       THEN [expanded EXCEPT ![Head(queue)] = @ + 1]
                       ELSE expanded
  /\ UNCHANGED <<envVars, pureVars, lifeVars, devServer, graphVars, op, pc, context, changedFile,
                 hostIds, entryFiles, entryModules, changedModules, relevant,
                 returned, builds, logged, loadVars>>

\* collectModuleGraph called with an empty queue returns visited, and
\* isRelevantChange looks the changed modules up in it.
collectModuleGraphReturn ==
  /\ pc = "collect"
  /\ Len(queue) = 0
  /\ relevant' = Bool(InTokenGraph(visited, changedModules))
  /\ pc' = "done"
  /\ UNCHANGED <<envVars, pureVars, lifeVars, devServer, graphVars, op, context, changedFile, hostIds,
                 entryFiles, entryModules, changedModules, queue, visited, expanded,
                 returned, builds, logged, loadVars>>

\* The operation is over; the next one starts afresh.
Return ==
  /\ pc = "done"
  /\ op' = "none"
  /\ pc' = "idle"
  /\ context' = NoContext
  /\ changedFile' = <<>>
  /\ hostIds' = <<>>
  /\ entryFiles' = <<>>
  /\ entryModules' = <<>>
  /\ changedModules' = {}
  /\ queue' = <<>>
  /\ visited' = {}
  /\ expanded' = [n \in Nodes |-> 0]
  /\ relevant' = ""
  /\ returned' = ""
  /\ builds' = 0
  /\ logged' = 0
  /\ load' = NoLoad
  /\ parsed' = NoParse
  /\ entries' = NoEntries
  /\ norm' = NoNorm
  /\ UNCHANGED <<envVars, lifeVars, devServer, graphVars>>

(***************************************************************************)
(* Spec: the dev server calls handleHotUpdate while the host records       *)
(* imports.                                                                *)
(***************************************************************************)

Next ==
  \/ \E a, b \in Nodes : HostAddImport(a, b, MaxHotImports)
  \/ \E a, b \in Nodes : HostAddSsrImport(a, b, MaxHotImports)
  \/ configureServer
  \/ handleHotUpdate
  \/ buildStyleDictionary
  \/ Return

Spec == Init /\ [][Next]_vars

(***************************************************************************)
(* SpecGraph: isRelevantChange is called on the graphs the host can build, *)
(* collectModuleGraph one call of its recursion at a time.                 *)
(***************************************************************************)

GraphSourceLists == { <<S("t")>>, <<S("[cu]"), S("d")>>, <<FileTLinux, S("d")>> }

InitGraph ==
  /\ Init
  /\ platform = "linux"
  /\ sources \in GraphSourceLists

NextGraph ==
  \/ \E a, b \in Nodes : HostAddImport(a, b, MaxImports)
  \/ \E a, b \in Nodes : HostAddSsrImport(a, b, MaxImports)
  \/ callIsRelevantChange
  \/ collectModuleGraphCall
  \/ collectModuleGraphReturn
  \/ Return

SpecGraph == InitGraph /\ [][NextGraph]_vars

(***************************************************************************)
(* SpecLoader: the loader and the parser are called before and after the   *)
(* dev server is configured, and isRelevantChange on what the host has     *)
(* loaded.                                                                 *)
(***************************************************************************)

LoaderSourceLists(plat) == { <<S("d")>>, <<FileT(plat), S("d")>> }

InitLoader ==
  /\ Init
  /\ sources \in LoaderSourceLists(platform)

NextLoader ==
  \/ configureServer
  \/ buildStyleDictionary
  \/ callLoadTokens
  \/ callParseTokenModule
  \/ callResolveSourceEntries
  \/ callIsRelevantChange
  \/ collectModuleGraphCall
  \/ collectModuleGraphReturn
  \/ Return

SpecLoader == InitLoader /\ [][NextLoader]_vars

(***************************************************************************)
(* SpecNormalize: normalizeViteIdForPlatform is called on every platform,  *)
(* with every answer of the file system, and again on its own result.      *)
(***************************************************************************)

InitNormalize ==
  /\ Init
  /\ sources = <<>>
  /\ fileToModules[FileI(platform)] = {}

NextNormalize ==
  \/ callNormalizeViteIdForPlatform
  \/ callNormalizeViteIdAgain
  \/ Return

SpecNormalize == InitNormalize /\ [][NextNormalize]_vars

(***************************************************************************)
(* The hooks as the host runs them: a hook runs until it awaits, and other *)
(* hooks run while it is suspended.                                        *)
(***************************************************************************)

\* Calls of hooks in one run of the host.
MaxHooks == 2

\* plugin.ts: PLUGIN_NAME
PLUGIN_NAME == S("style-dictionary-plugin")
VitestPrefix == S("vitest:")

\* The ResolvedConfig of the process: what isTestRun looks at, and the command.
Commands == {"serve", "build"}
ResolvedConfigs ==
  { [mode |-> c.mode, cli |-> c.cli, plugin |-> c.plugin, command |-> k] :
      c \in Contexts, k \in Commands }

\* config.plugins: this plugin and another, and one of vitest's when it runs.
PluginsOf(config) ==
  <<PLUGIN_NAME, S("other")>>
    \o (IF config.plugin THEN <<S("vitest:runner")>> ELSE <<>>)

\* A filter that lets every plugin pass.
filterNoPlugins(plugins) == plugins

\* plugin.ts: filterTokenPlugins
filterTokenPlugins(plugins) ==
  SelectSeq(plugins,
            LAMBDA name : name # PLUGIN_NAME /\ ~StartsWith(name, VitestPrefix))

\* plugin.ts: withBuildServer, the options it passes to createServer; the server
\* is not closed yet.
BuildServerOptions(config) ==
  [mode |-> IF config.mode = "test" THEN "development" ELSE config.mode,
   plugins |-> IF config.mode = "test" THEN <<>>
               ELSE filterTokenPlugins(PluginsOf(config)),
   middlewareMode |-> TRUE, hmr |-> FALSE, watch |-> "null",
   closes |-> 0, closed |-> FALSE]

\* A call of a hook: where it stands, the server it created, the instance it
\* built, what isRelevantChange answered, what it returned or threw.
Hook(name, at) ==
  [op |-> name, pc |-> at, server |-> 0, instance |-> 0, relevant |-> "",
   returned |-> "", thrown |-> <<>>]

HookReturned(name) == [Hook(name, "returned") EXCEPT !.returned = "undefined"]

\* plugin.ts: buildStyleDictionary, new StyleDictionary(sdConfig) for the hook
\* with index by: the configuration holds the sources as they were declared.
\* loads counts the calls of its parser, reports the calls of logger.error
\* about it.
NewInstance(by) ==
  [by |-> by, source |-> sources, loads |-> 0, failure |-> <<>>, settled |-> FALSE,
   reports |-> 0]

\* Why a build fails when no parser threw: a platform cannot be written.
OtherFailure == S("build")

\* What its parser is called with during a build, and what the host answers.
BuildFilePaths(plat) == { FilePath(FileT(plat)) }
BuildHosts(plat) == { HostId(FileT(plat)) }
BuildModules ==
  { ModuleOf([t |-> "object", v |-> "tokens"]),
    ModuleOf([t |-> "string", v |-> "not-an-object"]) }

\* A build that reports its failure and throws it again.
RethrowBuild(failure) ==
  [reports |-> IF failure # <<>> THEN 1 ELSE 0, thrown |-> failure]

\* plugin.ts: buildStyleDictionary, its catch clause: the calls of logger.error
\* and what leaves the function.
CatchBuild(failure) ==
  [reports |-> IF failure # <<>> THEN 1 ELSE 0, thrown |-> <<>>]

\* A hook may be called: the configuration is that of the process.
Callable(config) ==
  /\ Len(hooks) < MaxHooks
  /\ hostConfig \in {NoContext, config}

lifeFrame == <<envVars, graphVars, op, pc, context, relVars, hostIds, relevant,
               returned, builds, logged, loadVars, pureVars>>

\* plugin.ts: configResolved, up to its await of createServer
hookConfigResolved ==
  \E config \in ResolvedConfigs :
    /\ Callable(config)
    /\ hostConfig' = config
    /\ IF isTestRun(config) \/ config.command # "serve"
       THEN /\ servers' = Append(servers, BuildServerOptions(config))
            /\ hooks' = Append(hooks, [Hook("configResolved", "createServer")
                                         EXCEPT !.server = Len(servers) + 1])
       ELSE /\ hooks' = Append(hooks, HookReturned("configResolved"))
            /\ UNCHANGED servers
    /\ UNCHANGED <<lifeFrame, devServer, watched, instances, errors>>

\* createServer has resolved: the callback of withTokenServer sets the handle
\* and buildStyleDictionary constructs its instance and awaits buildAllPlatforms.
resumeCreateServer(i) ==
  /\ hooks[i].pc = "createServer"
  /\ devServer' = "buildServer"
  /\ instances' = Append(instances, NewInstance(i))
  /\ hooks' = [hooks EXCEPT ![i].pc = "build", ![i].instance = Len(instances) + 1]
  /\ UNCHANGED <<lifeFrame, hostConfig, servers, watched, errors>>

\* A configureServer that builds without setting the handle.
hookConfigureServerUnset ==
  \E config \in ResolvedConfigs :
    /\ Callable(config)
    /\ hostConfig' = config
    /\ IF isTestRun(config)
       THEN /\ hooks' = Append(hooks, HookReturned("configureServer"))
            /\ UNCHANGED <<watched, instances>>
       ELSE /\ watched' = Append(watched, toAbsoluteGlobs(Root(platform), sources))
            /\ instances' = Append(instances, NewInstance(Len(hooks) + 1))
            /\ hooks' = Append(hooks, [Hook("configureServer", "build")
                                         EXCEPT !.instance = Len(instances) + 1])
    /\ UNCHANGED <<lifeFrame, devServer, servers, errors>>

\* plugin.ts: configureServer, up to its await of buildAllPlatforms
hookConfigureServer ==
  \E config \in ResolvedConfigs :
    /\ Callable(config)
    /\ hostConfig' = config
    /\ IF isTestRun(config)
       THEN /\ hooks' = Append(hooks, HookReturned("configureServer"))
            /\ UNCHANGED <<devServer, watched, instances>>
       ELSE /\ devServer' = "live"
            /\ watched' = Append(watched, toAbsoluteGlobs(Root(platform), sources))
            /\ instances' = Append(instances, NewInstance(Len(hooks) + 1))
            /\ hooks' = Append(hooks, [Hook("configureServer", "build")
                                         EXCEPT !.instance = Len(instances) + 1])
    /\ UNCHANGED <<lifeFrame, servers, errors>>

\* plugin.ts: handleHotUpdate, up to the await of isRelevantChange, called for
\* a server with this configuration
handleHotUpdateCalled(config) ==
  /\ hostConfig' = config
  /\ IF isTestRun(config)
     THEN hooks' = Append(hooks, HookReturned("handleHotUpdate"))
     ELSE \E f \in Files(platform) :
          \E hosts \in HostAnswers(f, GraphHosts(platform)) :
          \E look \in { Lookup(f, hosts) } :
          \E isRelevant \in
               { IF look.returns THEN look.value
                 ELSE InTokenGraph(collectModuleGraph(look.entryModules, {}),
                                   look.changedModules) } :
            hooks' = Append(hooks, [Hook("handleHotUpdate", "isRelevantChange")
                                      EXCEPT !.relevant = Bool(isRelevant)])
  /\ UNCHANGED <<lifeFrame, devServer, servers, watched, instances, errors>>

hookHandleHotUpdate ==
  \E config \in ResolvedConfigs :
    /\ Callable(config)
    /\ handleHotUpdateCalled(config)

\* A hook that builds only when no build is running.
resumeIsRelevantChangeCoalesced(i) ==
  /\ hooks[i].pc = "isRelevantChange"
  /\ IF hooks[i].relevant = "true" /\ \A k \in DOMAIN instances : instances[k].settled
     THEN /\ instances' = Append(instances, NewInstance(i))
          /\ hooks' = [hooks EXCEPT ![i].pc = "build",
                                    ![i].instance = Len(instances) + 1]
     ELSE /\ hooks' = [hooks EXCEPT ![i].pc = "returned",
                                    ![i].returned = "undefined"]
          /\ UNCHANGED instances
  /\ UNCHANGED <<lifeFrame, devServer, hostConfig, servers, watched, errors>>

\* isRelevantChange has answered: handleHotUpdate returns undefined, or
\* buildStyleDictionary constructs its instance and awaits buildAllPlatforms.
resumeIsRelevantChange(i) ==
  /\ hooks[i].pc = "isRelevantChange"
  /\ IF hooks[i].relevant = "true"
     THEN /\ instances' = Append(instances, NewInstance(i))
          /\ hooks' = [hooks EXCEPT ![i].pc = "build",
                                    ![i].instance = Len(instances) + 1]
     ELSE /\ hooks' = [hooks EXCEPT ![i].pc = "returned",
                                    ![i].returned = "undefined"]
          /\ UNCHANGED instances
  /\ UNCHANGED <<lifeFrame, devServer, hostConfig, servers, watched, errors>>

\* While it builds, Style Dictionary calls the parser that addViteParser
\* registered: parseTokenModule with the loader, which reads the handle.
callParser(i) ==
  /\ hooks[i].pc = "build"
  /\ instances[hooks[i].instance].loads = 0
  /\ \E filePath \in BuildFilePaths(platform), host \in BuildHosts(platform),
        module \in BuildModules :
     \E result \in { ParseTokens(OrDefault(filePath),
                                 loadTokens(devServer, filePath, host, module)) } :
       instances' = [instances EXCEPT ![hooks[i].instance].loads = 1,
                                      ![hooks[i].instance].failure = result.error]
  /\ UNCHANGED <<lifeFrame, devServer, hostConfig, hooks, servers, watched, errors>>

\* What the hook does when buildStyleDictionary is over, with or without an
\* exception: configResolved resets the handle and awaits buildServer.close().
AfterBuild(i, thrown) ==
  IF hooks[i].op = "configResolved"
  THEN /\ devServer' = "null"
       /\ servers' = [servers EXCEPT ![hooks[i].server].closes = @ + 1]
       /\ hooks' = [hooks EXCEPT ![i].pc = "close", ![i].thrown = thrown]
  ELSE /\ hooks' = [hooks EXCEPT
                      ![i].pc = IF thrown # <<>> THEN "threw" ELSE "returned",
                      ![i].thrown = thrown,
                      ![i].returned =
                         IF thrown # <<>> THEN ""
                         ELSE IF hooks[i].op = "handleHotUpdate" THEN "modules"
                         ELSE "undefined"]
       /\ UNCHANGED <<devServer, servers>>

\* buildAllPlatforms has settled: with the failure of the parser, with another
\* failure, or without one.  The catch clause of buildStyleDictionary reports
\* a failure, and the hook goes on.
resumeBuildAllPlatforms(i) ==
  /\ hooks[i].pc = "build"
  /\ \E failure \in (IF instances[hooks[i].instance].failure # <<>>
                     THEN { instances[hooks[i].instance].failure }
                     ELSE { <<>>, OtherFailure }) :
       /\ instances' = [instances EXCEPT
                           ![hooks[i].instance].settled = TRUE,
                           ![hooks[i].instance].failure = failure,
                           ![hooks[i].instance].reports = CatchBuild(failure).reports]
       /\ errors' = errors + CatchBuild(failure).reports
       /\ AfterBuild(i, CatchBuild(failure).thrown)
  /\ UNCHANGED <<lifeFrame, hostConfig, watched>>

\* buildServer.close() has resolved: configResolved returns, or throws what its
\* callback threw.
resumeClose(i) ==
  /\ hooks[i].pc = "close"
  /\ servers' = [servers EXCEPT ![hooks[i].server].closed = TRUE]
  /\ hooks' = [hooks EXCEPT
                 ![i].pc = IF hooks[i].thrown # <<>> THEN "threw" ELSE "returned",
                 ![i].returned = IF hooks[i].thrown # <<>> THEN "" ELSE "undefined"]
  /\ UNCHANGED <<lifeFrame, devServer, hostConfig, watched, instances, errors>>

(***************************************************************************)
(* SpecLifecycle: the host calls the hooks, and calls them again while     *)
(* earlier calls are suspended.  FairLifecycle: what a hook awaits settles. *)
(***************************************************************************)

Slots == 1..(MaxHooks + 1)

InitLifecycle ==
  /\ Init
  /\ platform = "linux"
  /\ sources \in LoaderSourceLists(platform)
  /\ fileToModules[FileI(platform)] # {}

NextLifecycle ==
  \/ hookConfigResolved
  \/ hookConfigureServer
  \/ hookHandleHotUpdate
  \/ \E i \in DOMAIN hooks : resumeCreateServer(i)
  \/ \E i \in DOMAIN hooks : resumeIsRelevantChange(i)
  \/ \E i \in DOMAIN hooks : callParser(i)
  \/ \E i \in DOMAIN hooks : resumeBuildAllPlatforms(i)
  \/ \E i \in DOMAIN hooks : resumeClose(i)

SpecLifecycle == InitLifecycle /\ [][NextLifecycle]_vars

Settles ==
  \E i \in DOMAIN hooks :
    \/ resumeCreateServer(i)
    \/ resumeIsRelevantChange(i)
    \/ resumeBuildAllPlatforms(i)
    \/ resumeClose(i)

\* The hooks with every await settling, for a plugin whose source is a directory.
InitFair ==
  /\ InitLifecycle
  /\ sources = <<S("d")>>

FairLifecycle == InitFair /\ [][NextLifecycle]_vars /\ WF_vars(Settles)

(***************************************************************************)
(* The hooks in the order of the host: configResolved and, when it has     *)
(* returned, configureServer; from then on hot updates, which overlap with *)
(* the build of configureServer and with each other.                       *)
(***************************************************************************)

MaxHotUpdates == 2

\* plugin.ts: configResolved, the first hook the host calls
hostConfigResolved ==
  /\ hooks = <<>>
  /\ hookConfigResolved

\* plugin.ts: configureServer, called when configResolved has returned
hostConfigureServer ==
  /\ Len(hooks) = 1
  /\ hooks[1].pc = "returned"
  /\ hookConfigureServer

\* plugin.ts: handleHotUpdate, called by the server configureServer was called
\* for
hostHandleHotUpdate ==
  /\ Len(hooks) >= 2
  /\ Len(hooks) < 2 + MaxHotUpdates
  /\ handleHotUpdateCalled(hostConfig)

NextHostOrder ==
  \/ hostConfigResolved
  \/ hostConfigureServer
  \/ hostHandleHotUpdate
  \/ \E i \in DOMAIN hooks : resumeCreateServer(i)
  \/ \E i \in DOMAIN hooks : resumeIsRelevantChange(i)
  \/ \E i \in DOMAIN hooks : callParser(i)
  \/ \E i \in DOMAIN hooks : resumeBuildAllPlatforms(i)
  \/ \E i \in DOMAIN hooks : resumeClose(i)

SpecHostOrder == InitLifecycle /\ [][NextHostOrder]_vars

(***************************************************************************)
(* What the claims speak of                                                *)
(***************************************************************************)

\* The modules a module imports, statically or on the server.
Successors(n) == importedModules[n] \cup ssrImportedModules[n]

\* The modules reachable from roots along imports, roots included.
RECURSIVE Reachable(_)
Reachable(roots) ==
  IF UNION { Successors(n) : n \in roots } \subseteq roots THEN roots
  ELSE Reachable(roots \cup UNION { Successors(n) : n \in roots })

\* The literal sources, in the order declared.
Literals == SelectSeq(sources, LAMBDA s : ~isGlob(s))

\* The host resolved the identifier it was asked for to a file.
Resolves(host) ==
  /\ host.obj
  /\ host.id # <<>>
  /\ host.id[1] # NUL
  /\ ~StartsWith(host.id, VirtualPrefix)

\* The name under which the host registers the file at path: with forward
\* slashes on every platform.
HostKey(path) == IF platform = "win32" THEN toPosixPath(path) ELSE path

\* The file of the i-th literal source: what the host resolved it to, else the
\* declared path made absolute.
EntryFileOf(i) ==
  IF Resolves(hostIds[i]) THEN hostIds[i].id
  ELSE HostKey(toAbsolute(Root(platform), Literals[i]))

\* The nodes the code has found for its entry files.
EntryNodes == UNION { getModulesByFile(entryFiles[i]) : i \in DOMAIN entryFiles }

\* The changed file passes the filter built from the sources.
Included == createFilter(toAbsoluteGlobs(Root(platform), sources), changedFile)

\* isRelevantChange has answered: called by handleHotUpdate, or directly.
Answered == op \in {"handleHotUpdate", "isRelevantChange"} /\ relevant # ""

(***************************************************************************)
(* C1                                                                      *)
(***************************************************************************)

\* C1: whenever a node of the changed file is reachable, along static or server
\* imports, from a node of the file of a declared literal entry, isRelevantChange
\* returns true.
C1_ReachableIsRelevant ==
  Answered =>
    \A i \in DOMAIN hostIds :
      (\E e \in getModulesByFile(EntryFileOf(i)) :
         \E m \in getModulesByFile(changedFile) : m \in Reachable({e}))
      => relevant = "true"

(***************************************************************************)
(* C2                                                                      *)
(***************************************************************************)

\* C2: for a changed file that does not pass the filter, isRelevantChange returns
\* true exactly when one of the nodes of the file is reachable from the entry
\* nodes; so false without entry nodes, without a node of the file, or when none
\* of its nodes is reachable.
C2_RelevantIffReachable ==
  (op = "isRelevantChange" /\ pc = "done" /\ ~Included) =>
    (relevant = "true" <=>
       \E m \in getModulesByFile(changedFile) : m \in Reachable(EntryNodes))

\* A file with two nodes, one of them imported by an entry node on the server
\* only and the other not reachable at all, was found relevant.
C2_Witness ==
  /\ op = "isRelevantChange" /\ pc = "done" /\ ~Included
  /\ relevant = "true"
  /\ \E m \in getModulesByFile(changedFile) : m \notin Reachable(EntryNodes)
  /\ \E m \in getModulesByFile(changedFile) : \E e \in EntryNodes :
       /\ m \in ssrImportedModules[e]
       /\ \A n \in Nodes : m \notin importedModules[n]

(***************************************************************************)
(* C3                                                                      *)
(***************************************************************************)

\* The changed file is the i-th source: a literal path made absolute against
\* the root, or a glob that matches it.
MatchesSource(i) ==
  IF isGlob(sources[i])
  THEN GlobMatch(HostKey(toAbsolute(Root(platform), sources[i])), changedFile)
  ELSE HostKey(toAbsolute(Root(platform), sources[i])) = changedFile

\* C3: a changed file that is one of the declared sources, or matches one of
\* their globs, is relevant whatever the module graph holds.
C3_DirectMatchIsRelevant ==
  (Answered /\ \E i \in DOMAIN sources : MatchesSource(i)) => relevant = "true"

\* A declared file that no module has loaded, and no entry with a node, was
\* found relevant.
C3_Witness ==
  /\ op = "handleHotUpdate" /\ relevant = "true"
  /\ \E i \in DOMAIN sources : MatchesSource(i)
  /\ getModulesByFile(changedFile) = {}
  /\ \A i \in DOMAIN Literals :
       getModulesByFile(HostKey(toAbsolute(Root(platform), Literals[i]))) = {}

(***************************************************************************)
(* C4                                                                      *)
(***************************************************************************)

\* What is left to do in a traversal: the queue, and for every module not yet
\* visited the imports it may append.
Measure == Len(queue) + (2 * Cardinality(Nodes) + 1) * Cardinality(Nodes \ visited)

\* C4: collectModuleGraph appends the imports of every module at most once, a
\* module in visited never again; every call with a queue that is not empty
\* leaves less to do, so the recursion ends, on graphs with cycles too.
C4_TraversalTerminates ==
  /\ [](\A n \in Nodes : expanded[n] <= 1)
  /\ [][(pc = "collect" /\ queue # <<>>) =>
          /\ Measure' < Measure
          /\ \A n \in visited : expanded'[n] = expanded[n]]_vars
  /\ [](pc = "collect" => ENABLED (collectModuleGraphCall \/ collectModuleGraphReturn))

\* A traversal has ended on a graph with a cycle through two modules, both
\* expanded.
C4_Witness ==
  /\ op = "isRelevantChange" /\ pc = "done"
  /\ \E a, b \in Nodes :
       /\ a # b
       /\ b \in Successors(a) /\ a \in Successors(b)
       /\ expanded[a] = 1 /\ expanded[b] = 1

(***************************************************************************)
(* C5                                                                      *)
(***************************************************************************)

\* C5: outside a test run handleHotUpdate builds exactly when isRelevantChange
\* has returned true; for a change that is not relevant it builds nothing and
\* returns undefined.
C5_RelevanceGatesBuild ==
  (op = "handleHotUpdate" /\ ~isTestRun(context)) =>
    /\ pc = "build" => relevant = "true"
    /\ pc = "done" => /\ builds = 1 <=> relevant = "true"
                      /\ builds = 0 <=> relevant = "false"
                      /\ relevant = "false" => returned = "undefined"

\* Outside a test run a change that is not relevant has been answered with
\* undefined and without a build.
C5_Witness ==
  /\ op = "handleHotUpdate" /\ ~isTestRun(context) /\ pc = "done"
  /\ relevant = "false" /\ builds = 0 /\ returned = "undefined"

(***************************************************************************)
(* C6                                                                      *)
(***************************************************************************)

\* The loader has been called, by itself or by parseTokenModule.
Loaded == op \in {"loadTokens", "parseTokenModule"} /\ load.called

\* C6: called while there is no server, the loader throws "Vite server is not
\* available" to its caller, and has neither asked the host to resolve anything
\* nor to load a module.
C6_NoServerNoLoad ==
  (Loaded /\ devServer = "null") =>
    /\ load.threw /\ load.error = LoaderUnavailable
    /\ load.resolveIds = 0 /\ load.ssrLoads = 0
    /\ op = "parseTokenModule" => parsed.threw /\ parsed.error = LoaderUnavailable

\* parseTokenModule has called the loader with a path while there was no server.
C6_Witness ==
  /\ op = "parseTokenModule" /\ devServer = "null"
  /\ load.called /\ load.filePath.given /\ load.threw /\ parsed.threw

(***************************************************************************)
(* C7                                                                      *)
(***************************************************************************)

\* C7: the loader returns the default export of the module it loaded when there
\* is one that is neither null nor undefined, and what ssrLoadModule resolved
\* to otherwise.
C7_DefaultExportElseModule ==
  (Loaded /\ ~load.threw) =>
    IF load.module.t = "module" /\ load.module.default.t \notin {"undefined", "null"}
    THEN load.value = load.module.default
    ELSE load.value = load.module

\* The loader has returned a module without default export as it is.
C7_Witness ==
  /\ Loaded /\ ~load.threw
  /\ load.module.t = "module" /\ load.module.default = Undefined
  /\ load.value = load.module

(***************************************************************************)
(* C8                                                                      *)
(***************************************************************************)

\* C8: the entry of a literal source is what the host resolves it to.  The
\* loader loads that identifier, and no other, with one ssrLoadModule; a change
\* of the file the host resolved a source to, a file with nodes in the graph,
\* is relevant; and without a resolution the loader loads an identifier, made
\* from the source path, that starts at the root or with /@fs/.
C8_ResolvedEntryIsEffective ==
  /\ (Loaded /\ load.resolveIds = 1 /\ Resolves(load.host)) =>
       /\ load.ssrLoads = 1
       /\ load.moduleId = load.entryFile.id
  /\ (op = "isRelevantChange" /\ pc = "done") =>
       \A i \in DOMAIN hostIds :
         ( /\ Resolves(hostIds[i])
           /\ changedFile = hostIds[i].id
           /\ getModulesByFile(changedFile) # {} )
         => relevant = "true"
  /\ (Loaded /\ load.resolveIds = 1 /\ ~Resolves(load.host)) =>
       /\ load.ssrLoads = 1
       /\ load.moduleId # <<>> /\ load.moduleId[1] = "/"

(***************************************************************************)
(* C9                                                                      *)
(***************************************************************************)

\* sub occurs in s
Contains(s, sub) ==
  \E i \in 0..(Len(s) - Len(sub)) : SubSeq(s, i + 1, i + Len(sub)) = sub

\* C9: when the loader returns null, undefined, or anything that is not an
\* object, parseTokenModule throws "... must export a default object", a
\* message that holds the filePath given, or the default entry when none was
\* given; when the loader returns an object, parseTokenModule returns it.
C9_InvalidTokenExport ==
  (op = "parseTokenModule" /\ load.called /\ ~load.threw) =>
    IF load.value.t \in {"undefined", "null", "string", "number", "function"}
    THEN /\ parsed.threw
         /\ StartsWith(parsed.error, MessageHead)
         /\ Contains(parsed.error, MessageTail)
         /\ Contains(parsed.error,
                     IF load.filePath.given THEN load.filePath.path ELSE DEFAULT_ENTRY)
    ELSE ~parsed.threw /\ parsed.value = load.value

\* parseTokenModule, given no filePath, has thrown for a module whose default
\* export is a string.
C9_Witness ==
  /\ op = "parseTokenModule" /\ load.called /\ ~load.threw
  /\ ~load.filePath.given
  /\ load.value.t = "string" /\ load.value.v # ""
  /\ parsed.threw /\ Contains(parsed.error, DEFAULT_ENTRY)

(***************************************************************************)
(* C10                                                                     *)
(***************************************************************************)

\* C10: resolveTokenEntry returns null exactly when the host answers nothing,
\* no id, an id that starts with NUL or one that starts with "virtual:", and the
\* normalized id otherwise; a resolution that fails throws nothing, the caller
\* goes on with the path it has.
C10_FailureIsNull ==
  /\ (Loaded /\ load.resolveIds = 1) =>
       /\ load.entryFile.null <=> ~Resolves(load.host)
       /\ Resolves(load.host) => load.entryFile.id = normalizeViteId(load.host.id)
       /\ ~Resolves(load.host) => load.ssrLoads = 1 /\ load.error # LoaderUnavailable
  /\ (op = "isRelevantChange" /\ relevant # "") =>
       \A i \in DOMAIN hostIds :
         entryFiles[i] = IF Resolves(hostIds[i]) THEN normalizeViteId(hostIds[i].id)
                         ELSE toAbsolute(Root(platform), Literals[i])

\* The host has answered a virtual module, and the loader has gone on to load
\* the identifier made from the path.
C10_Witness ==
  /\ Loaded /\ load.resolveIds = 1
  /\ StartsWith(load.host.id, VirtualPrefix)
  /\ load.entryFile.null /\ load.ssrLoads = 1 /\ ~load.threw

(***************************************************************************)
(* C11                                                                     *)
(***************************************************************************)

\* A source that holds one of the characters *, ?, [ and ].
HasWildcard(source) ==
  \E i \in 1..Len(source) : source[i] \in {"*", "?", "[", "]"}

\* A declared path as an absolute one: itself, or the root, a separator and it,
\* in the notation of the platform.
AbsoluteOf(source) ==
  IF IsAbsolute(platform, source) THEN source
  ELSE ReplaceAll(Root(platform), "/", Sep(platform)) \o <<Sep(platform)>> \o source

\* C11: resolveSourceEntries returns one element for each declared source, in
\* the declared order.  A glob (a source holding *, ?, [ or ]) is returned as it
\* is and the host is never asked to resolve it.  A literal is made absolute
\* against the root and the host is asked once; the element is the identifier
\* the host resolved it to, or the absolute literal when the resolution is null.
C11_SourceEntriesInOrder ==
  entries.called =>
    /\ Len(entries.value) = Len(entries.source)
    /\ \A i \in 1..Len(entries.source) :
         IF HasWildcard(entries.source[i])
         THEN /\ entries.value[i] = entries.source[i]
              /\ entries.asked[i] = <<>>
         ELSE /\ Len(entries.asked[i]) = 1
              /\ HostKey(entries.asked[i][1]) = HostKey(AbsoluteOf(entries.source[i]))
              /\ entries.value[i] =
                   IF Resolves(entries.hosts[i])
                   THEN normalizeViteId(entries.hosts[i].id)
                   ELSE AbsoluteOf(entries.source[i])

\* A call with a glob and a directory that the host resolved to its index file,
\* and a call with a literal that the host did not resolve.
C11_Witness ==
  /\ entries.called
  /\ Len(entries.source) = 2
  /\ HasWildcard(entries.source[1])
  /\ ~HasWildcard(entries.source[2])
  /\ entries.asked[1] = <<>>
  /\ Len(entries.asked[2]) = 1
  /\ Resolves(entries.hosts[2])
  /\ HostKey(entries.value[2]) = FileI(platform)

(***************************************************************************)
(* C12, C13, C14, C15                                                      *)
(***************************************************************************)

\* normalizeViteIdForPlatform was called on an identifier built from pieces.
Normalized == norm.calls = 1

\* The path of that identifier without /@fs/ and without its verbatim prefix:
\* the share \\s\h\x for the body s\h\x behind a UNC prefix, else the body.
PlainPath ==
  IF norm.namespace = BackslashVerbatimUnc THEN TwoBackslashes \o norm.body
  ELSE IF norm.namespace = S("//?/UNC/") THEN TwoSlashes \o norm.body
  ELSE norm.body

\* A path that starts with a verbatim prefix.
HasNamespace(path) == \E ns \in Namespaces \ {<<>>} : StartsWith(path, ns)

\* A path that ends with the segments of another.
EndsWithSegments(segs, last) ==
  /\ Len(segs) >= Len(last)
  /\ SubSeq(segs, Len(segs) - Len(last) + 1, Len(segs)) = last

\* C12: normalize(normalize(x)) = normalize(x), for every identifier, platform and
\* answer of the file system.
C12_NormalizeIsIdempotent ==
  norm.calls >= 2 => norm.value = norm.id

\* C13: on a platform other than Windows normalizeViteIdForPlatform returns its
\* input unchanged and never calls realpathSync.
C13_IdentityOffWindows ==
  (platform # "win32" /\ norm.calls >= 1) =>
    /\ norm.value = norm.id
    /\ norm.realpathArgs = <<>>

\* The case of tests/path-utils.test.ts, lines 21-31.
C13_Witness ==
  /\ platform = "linux"
  /\ Normalized
  /\ norm.id = S("/@fs/home/runner/project/tokens.ts")
  /\ norm.value = norm.id
  /\ norm.realpathArgs = <<>>

\* The identifier, the argument of realpathSync and the result of
\* tests/path-utils.test.ts, lines 5-19.
ExampleId == S("/@fs//?/C:/Users/Runner/AppData/Local/Temp/vite-sd/tokens.ts")
ExampleArg == S("C:\\Users\\Runner\\AppData\\Local\\Temp\\vite-sd\\tokens.ts")
ExampleValue == S("/@fs/C:/Users/Runner/AppData/Local/Temp/vite-sd/tokens.ts")

\* What C14 says of the argument of realpathSync: an absolute path with
\* backslashes alone and no verbatim prefix, that ends as the identifier does.
ResolvedBackslashPath(arg) ==
  /\ IsAbsolute("win32", arg)
  /\ ~Includes(arg, "/")
  /\ ~HasNamespace(arg)
  /\ EndsWithSegments(Segments(arg, WinSeps), Segments(norm.body, WinSeps))

\* What C14 says of the result: the path realpathSync was asked for, without a
\* verbatim prefix; behind /@fs/ and with forward slashes if the input had /@fs/.
StrippedResult(value, arg) ==
  IF norm.prefix = <<>> THEN value = arg
  ELSE /\ StartsWith(value, VITE_FS_PREFIX)
       /\ ~HasNamespace(Slice(value, Len(VITE_FS_PREFIX)))
       /\ ~Includes(value, "\\")
       /\ Segments(Slice(value, Len(VITE_FS_PREFIX)), {"/"}) = Segments(arg, WinSeps)

\* C14: on Windows, for an identifier whose path without its verbatim prefix is
\* absolute, with or without /@fs/, normalizeViteIdForPlatform calls realpathSync
\* once, with the resolved absolute backslash path without the prefix; when
\* realpathSync answers, in verbatim notation or not, the result is that path
\* without verbatim prefix, behind /@fs/ if the input had it.  /@fs//?/C:/Users/
\* Runner/AppData/Local/Temp/vite-sd/tokens.ts gives /@fs/C:/Users/Runner/AppData/
\* Local/Temp/vite-sd/tokens.ts.
C14_WindowsStripsNamespace ==
  (platform = "win32" /\ Normalized /\ IsAbsolute("win32", PlainPath)) =>
    /\ Len(norm.realpathArgs) = 1
    /\ ResolvedBackslashPath(norm.realpathArgs[1])
    /\ realpath # "enoent" => StrippedResult(norm.value, norm.realpathArgs[1])
    /\ norm.id = ExampleId =>
         /\ norm.realpathArgs = <<ExampleArg>>
         /\ realpath # "enoent" => norm.value = ExampleValue

\* The case of the test, realpathSync answering in verbatim notation.
C14_Witness ==
  /\ platform = "win32"
  /\ realpath = "verbatim"
  /\ Normalized
  /\ norm.id = ExampleId
  /\ norm.value = ExampleValue

\* C15: normalizeViteIdForPlatform never throws; when realpathSync fails, or when
\* the path without its verbatim prefix is no absolute Windows path, it returns
\* its input unchanged.
C15_FailureReturnsInput ==
  norm.calls >= 1 =>
    /\ ~norm.threw
    /\ (Normalized /\ (realpath = "enoent" \/ ~IsAbsolute("win32", PlainPath))) =>
         norm.value = norm.id

\* realpathSync was called and threw; and a relative path behind a verbatim
\* prefix.
C15_Witness ==
  /\ platform = "win32"
  /\ Normalized
  /\ norm.value = norm.id
  /\ \/ realpath = "enoent" /\ Len(norm.realpathArgs) = 1 /\ norm.prefix # <<>>
     \/ realpath = "same" /\ norm.namespace = BackslashVerbatim /\ norm.body = S("t")

(***************************************************************************)
(* C16                                                                     *)
(***************************************************************************)

\* The instances that the hook with index i constructed.
InstancesBy(i) == { k \in DOMAIN instances : instances[k].by = i }

\* The builds that have failed.
FailedBuilds ==
  { k \in DOMAIN instances : instances[k].settled /\ instances[k].failure # <<>> }

\* The test context: mode test, vitest on the command line or in the
\* environment, or a plugin of vitest.
InTestContext == hostConfig.mode = "test" \/ hostConfig.cli \/ hostConfig.plugin

\* The hook with index i has returned what it returns after a build.
CompletedNormally(i) ==
  /\ hooks[i].pc = "returned"
  /\ hooks[i].thrown = <<>>
  /\ hooks[i].returned =
       IF hooks[i].op = "handleHotUpdate" THEN "modules" ELSE "undefined"

\* C16: a build that fails, a LoaderUnavailable or InvalidTokenExport of the
\* loader included, is reported through logger.error exactly once and thrown no
\* further: no hook ever throws, the hook whose build has settled has returned
\* (configResolved: awaits the close of its server, then returns), and a hot
\* update that is relevant builds whatever has failed before.
C16_BuildFailureIsCaught ==
  /\ \A k \in DOMAIN instances :
       instances[k].reports =
         IF instances[k].settled /\ instances[k].failure # <<>> THEN 1 ELSE 0
  /\ errors = Cardinality(FailedBuilds)
  /\ \A i \in DOMAIN hooks :
       /\ hooks[i].pc # "threw"
       /\ hooks[i].thrown = <<>>
       /\ \A k \in InstancesBy(i) :
            instances[k].settled =>
              \/ CompletedNormally(i)
              \/ hooks[i].op = "configResolved" /\ hooks[i].pc = "close"
  /\ \A j \in DOMAIN hooks :
       (hooks[j].relevant = "true" /\ hooks[j].pc # "isRelevantChange") =>
         InstancesBy(j) # {}

\* A build failed with the InvalidTokenExport of the parser and was reported, its
\* hook returned, and a later hot update has started a build.
C16_Witness ==
  \E i, j \in DOMAIN hooks :
    /\ i < j
    /\ CompletedNormally(i)
    /\ \E k \in InstancesBy(i) :
         /\ instances[k].failure = InvalidTokenExport(FileT(platform))
         /\ instances[k].reports = 1
    /\ hooks[j].op = "handleHotUpdate"
    /\ hooks[j].pc = "build"

(***************************************************************************)
(* C17                                                                     *)
(***************************************************************************)

\* The call with index i is one of configResolved for a build command or in a
\* test context: it has called createServer.
BuildsOnServer(i) ==
  /\ i \in DOMAIN hooks
  /\ hooks[i].op = "configResolved"
  /\ hooks[i].server # 0

\* What holds of such a call at every moment: its server was created without
\* this plugin; it has built nothing before the server exists and one
\* instance after; close was called at most once, never before the build had
\* settled, and once when the hook has returned.
OneBuildOneClose(i) ==
  /\ \A n \in DOMAIN servers[hooks[i].server].plugins :
       servers[hooks[i].server].plugins[n] # PLUGIN_NAME
  /\ Cardinality(InstancesBy(i)) = IF hooks[i].pc = "createServer" THEN 0 ELSE 1
  /\ servers[hooks[i].server].closes =
       IF hooks[i].pc \in {"createServer", "build"} THEN 0 ELSE 1
  /\ servers[hooks[i].server].closes = 1 =>
       \A k \in InstancesBy(i) : instances[k].settled
  /\ servers[hooks[i].server].closed <=> hooks[i].pc = "returned"

\* What such a call does to the handle: it sets it to its server when it starts
\* its build, and to null when the build is over.
HandleSetAndReset(i) ==
  /\ (hooks[i].pc = "createServer" /\ hooks'[i].pc = "build") =>
       devServer' = "buildServer"
  /\ (hooks[i].pc = "build" /\ hooks'[i].pc # "build") =>
       /\ devServer' = "null"
       /\ hooks'[i].pc = "close"

\* C17: a call of configResolved for a build command, or in a test context,
\* creates one temporary server without this plugin among its plugins, sets it
\* as the handle, runs exactly one build, then resets the handle to null and
\* closes the server exactly once, after the build has finished and also when
\* the build has failed; and it always gets there.
C17_TemporaryServerLifecycle ==
  /\ [](\A i \in DOMAIN hooks :
          /\ hooks[i].op = "configResolved" =>
               (hooks[i].server # 0
                  <=> (InTestContext \/ hostConfig.command = "build"))
          /\ BuildsOnServer(i) => OneBuildOneClose(i))
  /\ [][\A i \in DOMAIN hooks : BuildsOnServer(i) => HandleSetAndReset(i)]_vars
  /\ []<>(\A i \in DOMAIN hooks :
            BuildsOnServer(i) =>
              /\ hooks[i].pc = "returned"
              /\ servers[hooks[i].server].closes = 1
              /\ servers[hooks[i].server].closed)

\* A build command whose build failed: the hook has returned, the handle is
\* null and the server is closed.
C17_Witness ==
  \E i \in DOMAIN hooks :
    /\ BuildsOnServer(i)
    /\ hostConfig.command = "build"
    /\ ~InTestContext
    /\ hooks[i].pc = "returned"
    /\ devServer = "null"
    /\ servers[hooks[i].server].closes = 1
    /\ \E k \in InstancesBy(i) : instances[k].failure # <<>>

(***************************************************************************)
(* C18                                                                     *)
(***************************************************************************)

\* C18: in a test context configureServer does not set the handle, adds nothing
\* to the watcher and builds nothing, and handleHotUpdate builds nothing: both
\* return undefined at once.  Every build is the single one of a call of
\* configResolved, on a temporary server without file watching and without
\* HMR, and in mode test with no plugin at all.
C18_TestModeBuildsOnce ==
  InTestContext =>
    /\ devServer # "live"
    /\ watched = <<>>
    /\ \A i \in DOMAIN hooks :
         IF hooks[i].op = "configResolved"
         THEN /\ hooks[i].server # 0
              /\ Cardinality(InstancesBy(i)) <= 1
              /\ hooks[i].pc # "createServer" => Cardinality(InstancesBy(i)) = 1
         ELSE /\ InstancesBy(i) = {}
              /\ hooks[i].pc = "returned"
              /\ hooks[i].returned = "undefined"
    /\ \A n \in DOMAIN servers :
         /\ servers[n].watch = "null"
         /\ ~servers[n].hmr
         /\ hostConfig.mode = "test" => servers[n].plugins = <<>>

\* The calls of tests/styleDictionaryPlugin.test.ts, lines 266-330: in mode test
\* configureServer has returned and configResolved has built once and closed its
\* server.
C18_Witness ==
  /\ hostConfig.mode = "test"
  /\ Len(hooks) = 2
  /\ hooks[1].op = "configureServer"
  /\ hooks[2].op = "configResolved"
  /\ hooks[2].pc = "returned"
  /\ Len(instances) = 1
  /\ instances[1].settled
  /\ servers[hooks[2].server].closes = 1
  /\ watched = <<>>

(***************************************************************************)
(* C19                                                                     *)
(***************************************************************************)

\* The entries of the declared sources when the host resolves the directory to
\* its index file.
ResolvedSources ==
  resolveSourceEntries(Root(platform), sources,
                       [n \in 1..Len(sources) |-> HostId(FileI(platform))]).value

\* C19: when the dev server starts outside a test context with the directory
\* as its one source, which the host resolves to the index file in it, the
\* instance that configureServer builds is constructed with the index file as
\* its source, not with the directory.
C19_DirectorySourcesResolved ==
  \A k \in DOMAIN instances :
    (hooks[instances[k].by].op = "configureServer" /\ sources = <<S("d")>>) =>
      /\ instances[k].source = ResolvedSources
      /\ instances[k].source = <<FileI(platform)>>

(***************************************************************************)
(* C20                                                                     *)
(***************************************************************************)

\* The calls of handleHotUpdate to which isRelevantChange has answered true.
RelevantUpdates ==
  { i \in DOMAIN hooks :
      /\ hooks[i].op = "handleHotUpdate"
      /\ hooks[i].relevant = "true"
      /\ hooks[i].pc # "isRelevantChange" }

\* The builds that have started and not settled.
RunningBuilds == { k \in DOMAIN instances : ~instances[k].settled }

\* C20: every call of handleHotUpdate to which isRelevantChange answers true
\* starts a build of its own, whatever builds are running: it has one instance,
\* it is building or has returned the modules, and it never throws; so there are
\* as many builds of hot updates as relevant hot updates.
C20_EveryRelevantUpdateBuilds ==
  /\ \A i \in RelevantUpdates :
       /\ Cardinality(InstancesBy(i)) = 1
       /\ hooks[i].instance \in InstancesBy(i)
       /\ hooks[i].pc \in {"build", "returned"}
       /\ hooks[i].pc = "returned" => hooks[i].returned = "modules"
  /\ Cardinality({ k \in DOMAIN instances :
                     hooks[instances[k].by].op = "handleHotUpdate" })
       = Cardinality(RelevantUpdates)

\* Two hot updates were found relevant before either build completed: two builds
\* are running.
C20_Witness ==
  /\ Len(hooks) = 2
  /\ RelevantUpdates = {1, 2}
  /\ RunningBuilds = {1, 2}
  /\ instances[1].by # instances[2].by

(***************************************************************************)
(* C21                                                                     *)
(***************************************************************************)

\* The calls of hooks that are in buildStyleDictionary, awaiting
\* buildAllPlatforms.
Building == { i \in DOMAIN hooks : hooks[i].pc = "build" }

\* The builds whose parser asked the loader for tokens.
TokenLoads == { k \in DOMAIN instances : instances[k].loads > 0 }

\* A step that resets the handle is the end of the build of a call of
\* configResolved, which goes on to close its server.
ResetAfterOwnBuild ==
  (devServer # "null" /\ devServer' = "null") =>
    \E i \in Building :
      /\ hooks[i].op = "configResolved"
      /\ hooks'[i].pc = "close"
      /\ instances'[hooks[i].instance].settled

\* C21: when the host calls configResolved, then configureServer, then hot
\* updates that may overlap, the handle is not null while any build of the
\* plugin runs, so that no token load of a build fails with LoaderUnavailable;
\* the handle configureServer has set is never reset, and configResolved
\* resets the handle only when its own build has settled.
C21_HandleSetDuringBuilds ==
  /\ [](/\ Building # {} => devServer # "null"
        /\ \A k \in TokenLoads : instances[k].failure # LoaderUnavailable)
  /\ [][devServer = "live" => devServer' = "live"]_vars
  /\ [][ResetAfterOwnBuild]_vars

\* configResolved has built on its temporary server and returned; the build of
\* configureServer and those of two hot updates are running together, and the
\* parser of each has loaded its tokens.
C21_Witness ==
  /\ Len(hooks) = 4
  /\ hooks[1].op = "configResolved"
  /\ hooks[1].server # 0
  /\ hooks[1].pc = "returned"
  /\ instances[hooks[1].instance].loads = 1
  /\ Building = {2, 3, 4}
  /\ \A i \in Building :
       /\ instances[hooks[i].instance].loads = 1
       /\ instances[hooks[i].instance].failure \notin {LoaderUnavailable, OtherFailure}

=============================================================================
